---------------------------- MODULE Spec2Model ----------------------------
(***************************************************************************)
(* audio-grab: capture of an input stream into a WAV file.                 *)
(*                                                                         *)
(* Two programs are modelled.  src/main.go streams every captured block    *)
(* to the file behind a hand-written 44-byte header which it patches at    *)
(* the end (variant "stream").  src/unnamed/part_000 keeps every sample    *)
(* in memory as a float64 and hands them to an encoder at the end          *)
(* (variant "buffer").                                                     *)
(*                                                                         *)
(* Representation.                                                         *)
(*  - an int16 is an integer in -32768..32767, a uint16 one in 0..65535;   *)
(*  - a uint32 is a pair <<hi, lo>> of 16-bit halves, so that the          *)
(*    arithmetic modulo 2^32 of the header stays within 32-bit signed      *)
(*    integers;                                                            *)
(*  - the gain (volume) is a number of halves: 2 is 1.0, 4 is 2.0;         *)
(*  - a normalised float64 sample of part_000 is a numerator over          *)
(*    NormDen = MaxInt16 * VolumeDen (exact rational arithmetic);          *)
(*  - the file is its sequence of bytes and the offset of the next write.  *)
(***************************************************************************)
EXTENDS Integers, Sequences, FiniteSets, TLC

\* ------------------------------------------------------------------ bounds

\* frames per captured block (512 in the source, scaled down)
framesPerBuf == 2

\* blocks a session may read before the device stops delivering
MaxBlocks == 3

\* the longest buf the encoder hands to the streamer
EncodeBuf == 2

\* ------------------------------------------------------- program constants

bitsPerSample == 16

MaxInt16 == 32767

MinInt16 == -32768

\* the scale of the gain: volume is held as a number of 1/VolumeDen
VolumeDen == 2

\* the configured gain of main.go (volume = 1.0), in halves
volumeMain == 2

\* the configured gain of part_000 (volume = 2.0), in halves
volumePart == 4

\* var possibleSampleRates of main.go
possibleSampleRates == <<44100, 48000, 16000, 32000>>

\* var possibleSampleRates of part_000
possibleSampleRatesPart == <<44100, 48000, 96000, 16000, 32000, 22050>>

\* --------------------------------------------------------- integer helpers

\* Go's integer division and float-to-integer conversion truncate toward zero
TruncDiv(a, b) == IF a >= 0 THEN a \div b ELSE -((-a) \div b)

\* the int16 with the same low 16 bits
Wrap16(v) == LET u == v % 65536 IN IF u >= 32768 THEN u - 65536 ELSE u

\* the nearest int16
Sat16(v) == IF v > MaxInt16 THEN MaxInt16 ELSE IF v < MinInt16 THEN MinInt16 ELSE v

\* uint32(n) for 0 <= n < 2^31
ToU32(n) == <<(n \div 65536) % 65536, n % 65536>>

\* a + b modulo 2^32
U32Add(a, b) ==
    LET lo == a[2] + b[2]
    IN  <<(a[1] + b[1] + (lo \div 65536)) % 65536, lo % 65536>>

\* a * m modulo 2^32, m a uint16 widened to uint32
U32MulU16(a, m) ==
    LET ml  == m % 256
        mh  == m \div 256
        \* a.lo * m = a.lo*ml + (a.lo*mh) * 2^8
        p0  == a[2] * ml
        p1  == a[2] * mh
        lo  == (p0 % 65536) + (p1 % 256) * 256
        c   == (p0 \div 65536) + (p1 \div 256) + (lo \div 65536)
        \* a.hi * m contributes to the high half only
        h0  == (a[1] * ml) % 65536
        h1  == (((a[1] * mh) % 256) * 256) % 65536
    IN  <<(h0 + h1 + c) % 65536, lo % 65536>>

\* a * b modulo 2^16
U16Mul(a, b) == ((a % 256) * b + (((a \div 256) * b) % 256) * 256) % 65536

\* --------------------------------------------- binary.Write, little endian

PutU16(u) == <<u % 256, u \div 256>>

PutU32(v) == PutU16(v[2]) \o PutU16(v[1])

PutInt16(s) == PutU16(s % 65536)

GetU16(b) == b[1] + 256 * b[2]

GetU32(b) == <<b[3] + 256 * b[4], b[1] + 256 * b[2]>>

GetInt16(b) == LET u == GetU16(b) IN IF u >= 32768 THEN u - 65536 ELSE u

\* the bytes of f from offset off (0-based), n of them
Slice(f, off, n) == SubSeq(f, off + 1, off + n)

\* os.File.Write at offset off: overwrites what is there and extends the file
WriteAt(f, off, bytes) ==
    LET end == off + Len(bytes)
        n   == IF end > Len(f) THEN end ELSE Len(f)
    IN  [k \in 1..n |->
            IF k > off /\ k <= end THEN bytes[k - off] ELSE f[k]]

\* ------------------------------------------------------------- WAV header

\* the writes writeWavHeader makes, in order
writeWavHeaderWrites(rate, numChannels, bits, dataSize) ==
    LET blockAlign == U16Mul(numChannels, bits % 65536) \div 8
        byteRate   == U32MulU16(rate, blockAlign)
    IN  << <<82, 73, 70, 70>>,                       \* "RIFF"
           PutU32(U32Add(ToU32(36), dataSize)),
           <<87, 65, 86, 69>>,                       \* "WAVE"
           <<102, 109, 116, 32>>,                    \* "fmt "
           PutU32(ToU32(16)),
           PutU16(1),
           PutU16(numChannels),
           PutU32(rate),
           PutU32(byteRate),
           PutU16(blockAlign),
           PutU16(bits % 65536),
           <<100, 97, 116, 97>>,                     \* "data"
           PutU32(dataSize) >>

RECURSIVE Concat(_, _)
\* the first n of the byte sequences of ws, one after the other
Concat(ws, n) == IF n = 0 THEN <<>> ELSE Concat(ws, n - 1) \o ws[n]

\* the 44 bytes a successful writeWavHeader writes
writeWavHeader(rate, numChannels, bits, dataSize) ==
    Concat(writeWavHeaderWrites(rate, numChannels, bits, dataSize), 13)

\* the file after updateWavHeader's first seek and write
updateWavHeaderFirst(f, dataSize) == WriteAt(f, 4, PutU32(ToU32(36 + dataSize)))

\* updateWavHeader writing the length of the whole file, header included,
\* as the chunk size
updateWavHeader_FileSize(f, dataSize) ==
    WriteAt(WriteAt(f, 4, PutU32(ToU32(44 + dataSize))), 40, PutU32(ToU32(dataSize)))

\* updateWavHeader writing the data size after the header instead of into it
updateWavHeader_AfterHeader(f, dataSize) ==
    WriteAt(updateWavHeaderFirst(f, dataSize), 44, PutU32(ToU32(dataSize)))

\* the file after a successful updateWavHeader
updateWavHeader(f, dataSize) ==
    WriteAt(updateWavHeaderFirst(f, dataSize), 40, PutU32(ToU32(dataSize)))

\* the fields of a header, read back from its bytes
DecodeHeader(h) ==
    [ riff          |-> Slice(h, 0, 4),
      ChunkSize     |-> GetU32(Slice(h, 4, 4)),
      wave          |-> Slice(h, 8, 4),
      fmt           |-> Slice(h, 12, 4),
      Subchunk1Size |-> GetU32(Slice(h, 16, 4)),
      AudioFormat   |-> GetU16(Slice(h, 20, 2)),
      NumChannels   |-> GetU16(Slice(h, 22, 2)),
      SampleRate    |-> GetU32(Slice(h, 24, 4)),
      ByteRate      |-> GetU32(Slice(h, 28, 4)),
      BlockAlign    |-> GetU16(Slice(h, 32, 2)),
      BitsPerSample |-> GetU16(Slice(h, 34, 2)),
      data          |-> Slice(h, 36, 4),
      Subchunk2Size |-> GetU32(Slice(h, 40, 4)) ]

\* --------------------------------------------------------- rate negotiation

RECURSIVE findFrom(_, _, _)
\* the loop of findWorkingSampleRate from index k on
findFrom(cands, sup, k) ==
    IF k > Len(cands) THEN [rate |-> 0, err |-> TRUE]
    ELSE IF cands[k] \in sup THEN [rate |-> cands[k], err |-> FALSE]
    ELSE findFrom(cands, sup, k + 1)

RECURSIVE findLastFrom(_, _, _)
\* the loop of findWorkingSampleRate running from the end of the list
findLastFrom(cands, sup, k) ==
    IF k < 1 THEN [rate |-> 0, err |-> TRUE]
    ELSE IF cands[k] \in sup THEN [rate |-> cands[k], err |-> FALSE]
    ELSE findLastFrom(cands, sup, k - 1)

\* findWorkingSampleRate keeping the last supported candidate
findWorkingSampleRate_Last(cands, sup) == findLastFrom(cands, sup, Len(cands))

\* findWorkingSampleRate over the candidate list, sup the rates for which
\* portaudio.IsFormatSupported returns nil
findWorkingSampleRate(cands, sup) == findFrom(cands, sup, 1)

\* -------------------------------------------------------------------- gain

\* int16(float64(s) * volume) of main.go's writeSample: the product is exact
\* in float64 and the conversion truncates toward zero; a product outside
\* int16 converts to a value the language leaves to the implementation
\* (mode "wrap": the low 16 bits of the truncated integer, as on amd64 and
\* arm64; mode "saturate": the nearest int16)
writeSample(s, vol, mode) ==
    LET v == TruncDiv(s * vol, VolumeDen)
    IN  IF v >= MinInt16 /\ v <= MaxInt16 THEN v
        ELSE IF mode = "wrap" THEN Wrap16(v) ELSE Sat16(v)

\* frameSamples with the average rounded down instead of toward zero
frameSamples_FloorDiv(buf, i, ch, vol, mode) ==
    IF ch = 1 THEN << writeSample(buf[i + 1], vol, mode) >>
    ELSE IF ch = 2 THEN << writeSample(buf[i + 1], vol, mode),
                           writeSample(buf[i + 2], vol, mode) >>
    ELSE LET RECURSIVE sumFrom(_)
             sumFrom(c) == IF c >= ch \/ i + c >= Len(buf) THEN 0
                           ELSE buf[i + c + 1] + sumFrom(c + 1)
             avg == Wrap16(sumFrom(0) \div ch)
         IN  << writeSample(avg, vol, mode), writeSample(avg, vol, mode) >>

\* the samples main.go writes for the frame at index i of buf (0-based i)
frameSamples(buf, i, ch, vol, mode) ==
    IF ch = 1 THEN << writeSample(buf[i + 1], vol, mode) >>
    ELSE IF ch = 2 THEN << writeSample(buf[i + 1], vol, mode),
                           writeSample(buf[i + 2], vol, mode) >>
    ELSE LET RECURSIVE sumFrom(_)
             sumFrom(c) == IF c >= ch \/ i + c >= Len(buf) THEN 0
                           ELSE buf[i + c + 1] + sumFrom(c + 1)
             avg == Wrap16(TruncDiv(sumFrom(0), ch))
         IN  << writeSample(avg, vol, mode), writeSample(avg, vol, mode) >>

\* what main.go adds to totalBytesWritten for one frame
frameCounted(ch) == IF ch = 1 THEN 0 ELSE 4

\* the number of values main.go writes for one frame
frameValues(ch) == IF ch = 1 THEN 1 ELSE 2

RECURSIVE PutSamples(_, _)
\* binary.Write of the first n samples of ss, one after the other
PutSamples(ss, n) == IF n = 0 THEN <<>> ELSE PutSamples(ss, n - 1) \o PutInt16(ss[n])

\* -------------------------------------------------- part_000: normalised
\* samples.  A float64 sample is held as its numerator over NormDen; the
\* quotients involved are exact in this representation.

\* the denominator of a normalised sample
NormDen == MaxInt16 * VolumeDen

\* int16ToFloat64: s / 32767
int16ToFloat64(s) == s * VolumeDen

\* part_000:90-95: the sample times the gain, clamped to [-1.0, 1.0]
gainClamp(s, vol) ==
    LET sample == (int16ToFloat64(s) * vol) \div VolumeDen
    IN  IF sample > NormDen THEN NormDen
        ELSE IF sample < -NormDen THEN -NormDen
        ELSE sample

\* the value the streamer stores for the frame at i (0-based) of ss, as a
\* fraction: num / den in units of 1 / NormDen
streamFrame(ss, ch, i) ==
    IF ch = 1 THEN << [num |-> ss[i + 1], den |-> 1], [num |-> ss[i + 1], den |-> 1] >>
    ELSE IF ch = 2 THEN << [num |-> ss[i + 1], den |-> 1], [num |-> ss[i + 2], den |-> 1] >>
    ELSE LET RECURSIVE sumFrom(_)
             sumFrom(k) == IF k >= ch \/ i + k >= Len(ss) THEN 0
                           ELSE ss[i + k + 1] + sumFrom(k + 1)
             avg == [num |-> sumFrom(0), den |-> ch]
         IN  << avg, avg >>

RECURSIVE streamLoop(_, _, _, _, _, _)
\* the loop over buf of the closure, from j on, out the frames stored so far
streamLoop(ss, ch, i, j, bufLen, out) ==
    IF j >= bufLen THEN [n |-> bufLen, ok |-> TRUE, i |-> i, out |-> out]
    ELSE IF i + ch > Len(ss) THEN [n |-> j, ok |-> FALSE, i |-> i, out |-> out]
    ELSE streamLoop(ss, ch, i + ch, j + 1, bufLen, Append(out, streamFrame(ss, ch, i)))

\* the streamer reporting ok on a short read
multiChannelStreamer_ShortOk(ss, ch, i, bufLen) ==
    [streamLoop(ss, ch, i, 0, bufLen, <<>>) EXCEPT !.ok = TRUE]

\* one call of the streamer multiChannelStreamer(ss, ch) returns, its
\* position at i, on a buf of bufLen frames
multiChannelStreamer(ss, ch, i, bufLen) == streamLoop(ss, ch, i, 0, bufLen, <<>>)

\* ------------------------------------------------------------------ inputs

\* sample values the device delivers
TestSamples == <<32767, -32768, 1, 2, -5, 16384, -1>>

\* a block is a window of TestSamples, repeated cyclically, from a seed
BlockSeeds == {0, 2}

\* the block of n samples of seed sd
BlockOf(sd, n) == [k \in 1..n |-> TestSamples[((sd + k - 1) % Len(TestSamples)) + 1]]

\* configured channel counts (the source is built with channels = 1)
ChannelCounts == {1, 2, 3, 4}

\* configured gains, in halves (0.5, 1.0, 2.0)
Volumes == {1, volumeMain, volumePart}

\* what the device may support in a session
SessionSupported == { {}, {48000, 16000}, {16000, 32000, 22050} }

\* no call of writeWavHeader on its own
NoArgs == [rate |-> <<0, 0>>, numChannels |-> 0, bits |-> 0, dataSize |-> <<0, 0>>]

\* the streamer has not been called: n and ok of the last call, whether the
\* call was made with no complete frame left, the sum of the n returned and
\* the number of calls made with no complete frame left
NoCall == [n |-> 0, ok |-> TRUE, spent |-> FALSE, total |-> 0, after |-> 0]

\* ------------------------------------------------------------------- state

VARIABLES
    variant,            \* "stream" (main.go) or "buffer" (part_000)
    channels,           \* const channels
    volume,             \* const volume, in halves
    convMode,           \* what the build does on an out-of-range float conversion
    candidates,         \* var possibleSampleRates
    supported,          \* the rates the device supports
    hargs,              \* the arguments of a call of writeWavHeader on its own
    pc,                 \* where main is
    sampleRate,         \* the negotiated rate
    buffer,             \* the []int16 the stream reads into
    idx,                \* i of the loop over buffer
    totalBytesWritten,
    stop,               \* the signal channel (capacity 1): TRUE when it holds a signal
    streamOpen,         \* portaudio.OpenStream succeeded and Close has not run
    fileExists,         \* os.Create succeeded
    fileClosed,         \* outFile.Close has run
    fileBytes,          \* the bytes of micdropper.wav
    filePos,            \* the offset of outFile
    blocksRead,         \* history: successful stream.Read calls
    captured,           \* history: every sample read, in order
    finalizeCalls,      \* history: calls of updateWavHeader
    readsAfterStop,     \* history: reads that returned while stop held a signal
    placeholder,        \* history: the file as writeWavHeader left it
    failure,            \* history: the operation whose error ended the process
    signalMidBlock,     \* history: a signal arrived between the samples of a block
    samples,            \* part_000: var samples []float64, numerators over NormDen
    streamPos,          \* part_000: i of the closure multiChannelStreamer returns
    streamed,           \* history: the frames the streamer has delivered, in order
    ret                 \* history: what the last call of the streamer returned

config == <<variant, channels, volume, convMode, candidates, supported, hargs>>

file == <<fileExists, fileClosed, fileBytes, filePos>>

history == <<blocksRead, captured, finalizeCalls, readsAfterStop, placeholder, signalMidBlock>>

mem == <<samples, streamPos, streamed, ret>>

vars == <<config, pc, sampleRate, buffer, idx, totalBytesWritten, stop,
          streamOpen, file, history, failure, mem>>

\* the sample bytes of the file, after the header
DataBytes == IF Len(fileBytes) > 44 THEN Slice(fileBytes, 44, Len(fileBytes) - 44) ELSE <<>>

\* the states in which signal.Notify has registered the channel
Notified == {"start", "select", "read", "frame", "accumulate", "finalize", "encode",
             "encoded", "return"}

\* --------------------------------------------------------------------- Init

\* main before its first step
Start ==
    /\ sampleRate = 0
    /\ buffer = <<>>
    /\ idx = 0
    /\ totalBytesWritten = 0
    /\ stop = FALSE
    /\ streamOpen = FALSE
    /\ fileExists = FALSE
    /\ fileClosed = FALSE
    /\ fileBytes = <<>>
    /\ filePos = 0
    /\ blocksRead = 0
    /\ captured = <<>>
    /\ finalizeCalls = 0
    /\ readsAfterStop = 0
    /\ placeholder = <<>>
    /\ failure = "none"
    /\ signalMidBlock = FALSE
    /\ samples = <<>>
    /\ streamPos = 0
    /\ streamed = <<>>
    /\ ret = NoCall

\* a session of main.go or of part_000 under every configuration
Init ==
    /\ variant \in {"stream", "buffer"}
    /\ channels \in ChannelCounts
    /\ volume \in Volumes
    /\ convMode \in (IF variant = "stream" /\ volume > VolumeDen
                     THEN {"wrap", "saturate"} ELSE {"wrap"})
    /\ candidates = (IF variant = "stream" THEN possibleSampleRates
                                           ELSE possibleSampleRatesPart)
    /\ supported \in SessionSupported
    /\ hargs = NoArgs
    /\ pc = "negotiate"
    /\ Start

\* log.Fatal: the process exits at once, no deferred call runs
Fatal(cause) == pc' = "fatal" /\ failure' = cause

\* ------------------------------------------------------------------ actions

\* main.go:42-47: a rate is found, the buffer is made
NegotiateOk ==
    /\ pc = "negotiate"
    /\ LET r == findWorkingSampleRate(candidates, supported)
       IN  /\ ~r.err
           /\ sampleRate' = r.rate
    /\ buffer' = [k \in 1..(framesPerBuf * channels) |-> 0]
    /\ pc' = "openStream"
    /\ UNCHANGED <<config, mem, failure, idx, totalBytesWritten, stop, streamOpen, file, history>>

\* the failure of the negotiation logged, main going on with rate 0
NegotiateFail_Continue ==
    /\ pc = "negotiate"
    /\ findWorkingSampleRate(candidates, supported).err
    /\ failure' = "negotiate"
    /\ sampleRate' = 0
    /\ buffer' = [k \in 1..(framesPerBuf * channels) |-> 0]
    /\ pc' = "openStream"
    /\ UNCHANGED <<config, mem, idx, totalBytesWritten, stop, streamOpen, file, history>>

\* main.go:43-45: no rate is supported
NegotiateFail ==
    /\ pc = "negotiate"
    /\ findWorkingSampleRate(candidates, supported).err
    /\ Fatal("negotiate")
    /\ UNCHANGED <<config, mem, sampleRate, buffer, idx, totalBytesWritten, stop,
                   streamOpen, file, history>>

\* main.go:59-63
OpenStreamOk ==
    /\ pc = "openStream"
    /\ streamOpen' = TRUE
    /\ pc' = "create"
    /\ UNCHANGED <<config, mem, failure, sampleRate, buffer, idx, totalBytesWritten, stop, file, history>>

OpenStreamFail ==
    /\ pc = "openStream"
    /\ Fatal("openStream")
    /\ UNCHANGED <<config, mem, sampleRate, buffer, idx, totalBytesWritten, stop,
                   streamOpen, file, history>>

\* main.go:65-69, part_000:65-69: os.Create truncates the file; main.go goes
\* on to write the header
CreateOk ==
    /\ pc = "create"
    /\ fileExists' = TRUE
    /\ fileBytes' = <<>>
    /\ filePos' = 0
    /\ pc' = (IF variant = "stream" THEN "header" ELSE "start")
    /\ UNCHANGED <<config, mem, failure, sampleRate, buffer, idx, totalBytesWritten, stop,
                   streamOpen, fileClosed, history>>

CreateFail ==
    /\ pc = "create"
    /\ Fatal("create")
    /\ UNCHANGED <<config, mem, sampleRate, buffer, idx, totalBytesWritten, stop,
                   streamOpen, file, history>>

\* main.go:72: the placeholder header, dataSize 0
HeaderOk ==
    /\ pc = "header"
    /\ LET h == writeWavHeader(ToU32(sampleRate), channels, bitsPerSample, ToU32(0))
       IN  /\ fileBytes' = WriteAt(fileBytes, filePos, h)
           /\ filePos' = filePos + Len(h)
    /\ placeholder' = fileBytes'
    /\ pc' = "start"
    /\ UNCHANGED <<config, mem, failure, sampleRate, buffer, idx, totalBytesWritten, stop,
                   streamOpen, fileExists, fileClosed, blocksRead, captured,
                   finalizeCalls, readsAfterStop, signalMidBlock>>

\* main.go:72-74: one of the header's writes fails, the ones before it are in the file
HeaderFail ==
    /\ pc = "header"
    /\ \E n \in 0..12 :
         LET h == Concat(writeWavHeaderWrites(ToU32(sampleRate), channels,
                                              bitsPerSample, ToU32(0)), n)
         IN  /\ fileBytes' = WriteAt(fileBytes, filePos, h)
             /\ filePos' = filePos + Len(h)
    /\ Fatal("header")
    /\ UNCHANGED <<config, mem, sampleRate, buffer, idx, totalBytesWritten, stop,
                   streamOpen, fileExists, fileClosed, history>>

\* main.go:76-86, part_000:72-77: the channel is registered for the signal,
\* the stream starts (part_000 does not look at the error of stream.Start)
StartOk ==
    /\ pc = "start"
    /\ pc' = "select"
    /\ UNCHANGED <<config, mem, failure, sampleRate, buffer, idx, totalBytesWritten, stop,
                   streamOpen, file, history>>

\* main.go:83-85
StartFail ==
    /\ pc = "start"
    /\ variant = "stream"
    /\ Fatal("start")
    /\ UNCHANGED <<config, mem, sampleRate, buffer, idx, totalBytesWritten, stop,
                   streamOpen, file, history>>

\* the operating system delivers an interrupt; a full channel drops it
SignalArrives ==
    /\ pc \in Notified
    /\ ~stop
    /\ stop' = TRUE
    /\ signalMidBlock' = (signalMidBlock \/ (pc = "frame" /\ idx > 0) \/ pc = "accumulate")
    /\ UNCHANGED <<config, mem, failure, pc, sampleRate, buffer, idx, totalBytesWritten,
                   streamOpen, file, blocksRead, captured, finalizeCalls,
                   readsAfterStop, placeholder>>

\* the signal received and main returning without updateWavHeader
SelectStop_NoFinalize ==
    /\ pc = "select"
    /\ stop
    /\ stop' = FALSE
    /\ pc' = "return"
    /\ UNCHANGED <<config, mem, failure, sampleRate, buffer, idx, totalBytesWritten,
                   streamOpen, file, history>>

\* a break without the label: it leaves the select, not the loop
SelectStop_BreakSelect ==
    /\ pc = "select"
    /\ stop
    /\ stop' = FALSE
    /\ pc' = "select"
    /\ UNCHANGED <<config, mem, failure, sampleRate, buffer, idx, totalBytesWritten,
                   streamOpen, file, history>>

\* main.go:98-101, part_000:82-84: the select receives the signal and leaves
\* the loop
SelectStop ==
    /\ pc = "select"
    /\ stop
    /\ stop' = FALSE
    /\ pc' = (IF variant = "stream" THEN "finalize" ELSE "encode")
    /\ UNCHANGED <<config, mem, failure, sampleRate, buffer, idx, totalBytesWritten,
                   streamOpen, file, history>>

\* main.go:102: no signal is waiting, the default case runs
SelectDefault ==
    /\ pc = "select"
    /\ ~stop
    /\ blocksRead < MaxBlocks
    /\ pc' = "read"
    /\ UNCHANGED <<config, mem, failure, sampleRate, buffer, idx, totalBytesWritten, stop,
                   streamOpen, file, history>>

\* main.go:103: stream.Read fills the buffer
ReadOk ==
    /\ pc = "read"
    /\ \E sd \in BlockSeeds : buffer' = BlockOf(sd, Len(buffer))
    /\ idx' = 0
    /\ pc' = (IF variant = "stream" THEN "frame" ELSE "accumulate")
    /\ blocksRead' = blocksRead + 1
    /\ captured' = captured \o buffer'
    /\ readsAfterStop' = IF stop THEN readsAfterStop + 1 ELSE readsAfterStop
    /\ UNCHANGED <<config, mem, failure, sampleRate, totalBytesWritten, stop, streamOpen,
                   file, finalizeCalls, placeholder, signalMidBlock>>

\* main.go:103-105
ReadFail ==
    /\ pc = "read"
    /\ Fatal("read")
    /\ UNCHANGED <<config, mem, sampleRate, buffer, idx, totalBytesWritten, stop,
                   streamOpen, file, history>>

\* the loop over the buffer looking at the channel after each frame and
\* leaving at once when it holds a signal
Frame_StopMidBlock ==
    /\ pc = "frame"
    /\ LET ss == frameSamples(buffer, idx, channels, volume, convMode)
           bs == PutSamples(ss, Len(ss))
       IN  /\ fileBytes' = WriteAt(fileBytes, filePos, bs)
           /\ filePos' = filePos + Len(bs)
    /\ totalBytesWritten' = totalBytesWritten + frameCounted(channels)
    /\ idx' = idx + channels
    /\ stop' = FALSE
    /\ pc' = IF stop THEN "finalize"
             ELSE IF idx' < Len(buffer) THEN "frame" ELSE "select"
    /\ UNCHANGED <<config, mem, failure, sampleRate, buffer, streamOpen, fileExists,
                   fileClosed, history>>

\* main.go:106-134: one iteration of the loop over the buffer
Frame ==
    /\ pc = "frame"
    /\ LET ss == frameSamples(buffer, idx, channels, volume, convMode)
           bs == PutSamples(ss, Len(ss))
       IN  /\ fileBytes' = WriteAt(fileBytes, filePos, bs)
           /\ filePos' = filePos + Len(bs)
    /\ totalBytesWritten' = totalBytesWritten + frameCounted(channels)
    /\ idx' = idx + channels
    /\ pc' = IF idx' < Len(buffer) THEN "frame" ELSE "select"
    /\ UNCHANGED <<config, mem, failure, sampleRate, buffer, stop, streamOpen, fileExists,
                   fileClosed, history>>

\* main.go:91-93: a write of the frame fails, the ones before it are in the file
FrameFail ==
    /\ pc = "frame"
    /\ LET ss == frameSamples(buffer, idx, channels, volume, convMode)
       IN  \E n \in 0..(Len(ss) - 1) :
             LET bs == PutSamples(ss, n)
             IN  /\ fileBytes' = WriteAt(fileBytes, filePos, bs)
                 /\ filePos' = filePos + Len(bs)
    /\ Fatal("write")
    /\ UNCHANGED <<config, mem, sampleRate, buffer, idx, totalBytesWritten, stop,
                   streamOpen, fileExists, fileClosed, history>>

\* main.go:140: updateWavHeader patches both size fields
FinalizeOk ==
    /\ pc = "finalize"
    /\ finalizeCalls' = finalizeCalls + 1
    /\ fileBytes' = updateWavHeader(fileBytes, totalBytesWritten)
    /\ filePos' = 44
    /\ pc' = "return"
    /\ UNCHANGED <<config, mem, failure, sampleRate, buffer, idx, totalBytesWritten, stop,
                   streamOpen, fileExists, fileClosed, blocksRead, captured,
                   readsAfterStop, placeholder, signalMidBlock>>

\* main.go:140-142: the first seek or write fails, or the second
FinalizeFail ==
    /\ pc = "finalize"
    /\ finalizeCalls' = finalizeCalls + 1
    /\ \/ UNCHANGED <<fileBytes, filePos>>
       \/ /\ fileBytes' = updateWavHeaderFirst(fileBytes, totalBytesWritten)
          /\ filePos' = 8
    /\ Fatal("finalize")
    /\ UNCHANGED <<config, mem, sampleRate, buffer, idx, totalBytesWritten, stop,
                   streamOpen, fileExists, fileClosed, blocksRead, captured,
                   readsAfterStop, placeholder, signalMidBlock>>

\* main.go:144-145: main returns; the deferred stream.Stop, outFile.Close,
\* stream.Close and portaudio.Terminate run
Return ==
    /\ pc = "return"
    /\ fileClosed' = TRUE
    /\ streamOpen' = FALSE
    /\ pc' = "done"
    /\ UNCHANGED <<config, mem, failure, sampleRate, buffer, idx, totalBytesWritten, stop,
                   fileExists, fileBytes, filePos, history>>

\* part_000:89-97: the block is scaled, clamped and appended to samples
Accumulate ==
    /\ pc = "accumulate"
    /\ samples' = samples \o [k \in 1..Len(buffer) |-> gainClamp(buffer[k], volume)]
    /\ pc' = "select"
    /\ UNCHANGED <<config, failure, sampleRate, buffer, idx, totalBytesWritten, stop,
                   streamOpen, file, history, streamPos, streamed, ret>>

\* part_000:107: wav.Encode asks the streamer for up to n more frames
EncodeStream ==
    /\ pc = "encode"
    /\ \E n \in 1..EncodeBuf :
         LET r == multiChannelStreamer(samples, channels, streamPos, n)
         IN  /\ streamPos' = r.i
             /\ streamed' = streamed \o r.out
             /\ ret' = [n |-> r.n, ok |-> r.ok,
                        spent |-> streamPos + channels > Len(samples),
                        total |-> ret.total + r.n, after |-> ret.after]
             /\ pc' = (IF r.ok THEN "encode" ELSE "encoded")
    /\ UNCHANGED <<config, failure, sampleRate, buffer, idx, totalBytesWritten, stop,
                   streamOpen, file, history, samples>>

\* part_000:107-111: wav.Encode returns nil
EncodeOk ==
    /\ pc = "encoded"
    /\ pc' = "return"
    /\ UNCHANGED <<config, mem, failure, sampleRate, buffer, idx, totalBytesWritten,
                   stop, streamOpen, file, history>>

\* part_000:107-109: wav.Encode returns an error
EncodeFail ==
    /\ pc \in {"encode", "encoded"}
    /\ Fatal("encode")
    /\ UNCHANGED <<config, mem, sampleRate, buffer, idx, totalBytesWritten, stop,
                   streamOpen, file, history>>

\* the steps of main
Step ==
    \/ NegotiateOk \/ NegotiateFail
    \/ OpenStreamOk \/ OpenStreamFail
    \/ CreateOk \/ CreateFail
    \/ HeaderOk \/ HeaderFail
    \/ StartOk \/ StartFail
    \/ SelectStop \/ SelectDefault
    \/ ReadOk \/ ReadFail
    \/ Frame \/ FrameFail
    \/ FinalizeOk \/ FinalizeFail
    \/ Accumulate
    \/ EncodeStream \/ EncodeOk \/ EncodeFail
    \/ Return

Next == Step \/ SignalArrives

Spec == Init /\ [][Next]_vars

\* ------------------------------------------- the negotiation on its own

\* the longest candidate list drawn
MaxCandidates == 3

\* the rates candidate lists are drawn from
RateUniverse == {44100, 48000, 16000}

\* candidate lists: the two of the source and every list up to MaxCandidates
CandidateLists ==
    {possibleSampleRates, possibleSampleRatesPart}
    \cup UNION { [1..n -> RateUniverse] : n \in 0..MaxCandidates }

\* what a device may support
DeviceRates == SUBSET {44100, 48000, 16000, 32000}

InitRate ==
    /\ variant = "stream"
    /\ channels = 1
    /\ volume = volumeMain
    /\ convMode = "wrap"
    /\ candidates \in CandidateLists
    /\ supported \in DeviceRates
    /\ hargs = NoArgs
    /\ pc = "negotiate"
    /\ Start

NextRate == NegotiateOk \/ NegotiateFail

SpecRate == InitRate /\ [][NextRate]_vars

\* ---------------------------------------- the header functions on their own

\* v + 36, not reduced: the high half is 65536 when the sum needs 33 bits
ExactAdd36(v) == LET lo == v[2] + 36 IN <<v[1] + (lo \div 65536), lo % 65536>>

\* v * m, not reduced, m <= 32768: the high half exceeds 65535 when the
\* product needs more than 32 bits
ExactMul(v, m) == LET p == v[2] * m IN <<v[1] * m + (p \div 65536), p % 65536>>

\* arguments of writeWavHeader, up to the ends of the fields' ranges, for
\* which a header exists: 36 + dataSize and the byte rate fit 32 bits
HeaderArgs ==
    { a \in [ rate        : {ToU32(16000), ToU32(44100), ToU32(48000), <<65535, 65535>>},
              numChannels : {1, 2, 4096, 8192},
              bits        : {8, 16, 32},
              dataSize    : {ToU32(0), ToU32(3072), <<65535, 65499>>} ] :
        /\ ExactAdd36(a.dataSize)[1] <= 65535
        /\ ExactMul(a.rate, (a.numChannels * a.bits) \div 8)[1] <= 65535 }

\* data sizes updateWavHeader is called with
FinalSizes == {0, 3072, 65536}

InitHeader ==
    /\ variant = "stream"
    /\ channels = 1
    /\ volume = volumeMain
    /\ convMode = "wrap"
    /\ candidates = possibleSampleRates
    /\ supported = {}
    /\ hargs \in HeaderArgs
    /\ pc = "call"
    /\ Start

\* main.go:169-219: writeWavHeader on an empty file
WriteHeaderCall ==
    /\ pc = "call"
    /\ fileBytes' = WriteAt(fileBytes, filePos,
                            writeWavHeader(hargs.rate, hargs.numChannels,
                                           hargs.bits, hargs.dataSize))
    /\ filePos' = filePos + 44
    /\ placeholder' = fileBytes'
    /\ pc' = "returned"
    /\ UNCHANGED <<config, mem, failure, sampleRate, buffer, idx, totalBytesWritten, stop,
                   streamOpen, fileExists, fileClosed, blocksRead, captured,
                   finalizeCalls, readsAfterStop, signalMidBlock>>

\* main.go:221-232: updateWavHeader on the header written
UpdateHeaderCall ==
    /\ pc = "returned"
    /\ \E n \in FinalSizes :
         /\ totalBytesWritten' = n
         /\ fileBytes' = updateWavHeader(fileBytes, n)
    /\ filePos' = 44
    /\ finalizeCalls' = finalizeCalls + 1
    /\ pc' = "patched"
    /\ UNCHANGED <<config, mem, failure, sampleRate, buffer, idx, stop,
                   streamOpen, fileExists, fileClosed, blocksRead, captured,
                   readsAfterStop, placeholder, signalMidBlock>>

NextHeader == WriteHeaderCall \/ UpdateHeaderCall

SpecHeader == InitHeader /\ [][NextHeader]_vars

\* ------------------------------------------------ the streamer on its own

\* the longest sample sequence handed to multiChannelStreamer
MaxSamples == 5

\* calls made of a streamer that has no complete frame left
MaxAfter == 2

\* normalised sample values: -1.0 and two small ones
StreamValues == {-NormDen, 3, 8}

\* the sample sequences
SampleSeqs == UNION { [1..n -> StreamValues] : n \in 0..MaxSamples }

InitStreamer ==
    /\ variant = "buffer"
    /\ channels \in ChannelCounts
    /\ volume = volumePart
    /\ convMode = "wrap"
    /\ candidates = possibleSampleRatesPart
    /\ supported = {}
    /\ hargs = NoArgs
    /\ pc = "stream"
    /\ sampleRate = 0 /\ buffer = <<>> /\ idx = 0 /\ totalBytesWritten = 0
    /\ stop = FALSE /\ streamOpen = FALSE
    /\ fileExists = FALSE /\ fileClosed = FALSE /\ fileBytes = <<>> /\ filePos = 0
    /\ blocksRead = 0 /\ captured = <<>> /\ finalizeCalls = 0 /\ readsAfterStop = 0
    /\ placeholder = <<>> /\ failure = "none" /\ signalMidBlock = FALSE
    /\ samples \in SampleSeqs
    /\ streamPos = 0
    /\ streamed = <<>>
    /\ ret = NoCall

\* part_000:120-145: one call of the streamer on a buf of n frames
StreamCall ==
    /\ pc = "stream"
    /\ ret.after < MaxAfter
    /\ \E n \in 1..EncodeBuf :
         LET r     == multiChannelStreamer(samples, channels, streamPos, n)
             spent == streamPos + channels > Len(samples)
         IN  /\ streamPos' = r.i
             /\ streamed' = streamed \o r.out
             /\ ret' = [n |-> r.n, ok |-> r.ok, spent |-> spent,
                        total |-> ret.total + r.n,
                        after |-> IF spent THEN ret.after + 1 ELSE ret.after]
    /\ UNCHANGED <<config, failure, pc, sampleRate, buffer, idx, totalBytesWritten, stop,
                   streamOpen, file, history, samples>>

SpecStreamer == InitStreamer /\ [][StreamCall]_vars

\* ------------------------------------------------------------- scheduling

\* sessions of both programs at their configured gains, mono and stereo
InitLive ==
    /\ variant \in {"stream", "buffer"}
    /\ channels \in {1, 2}
    /\ volume = (IF variant = "stream" THEN volumeMain ELSE volumePart)
    /\ convMode = "wrap"
    /\ candidates = (IF variant = "stream" THEN possibleSampleRates
                                           ELSE possibleSampleRatesPart)
    /\ supported \in { {}, {48000, 16000} }
    /\ hargs = NoArgs
    /\ pc = "negotiate"
    /\ Start

\* main keeps running: a step that can be taken is taken (a device call may
\* return an error, it does not hang)
FairSpec == InitLive /\ [][Next]_vars /\ WF_vars(Step)

\* ------------------------------------------------------------------ claims

\* the header of the file, decoded
Header == DecodeHeader(Slice(fileBytes, 0, 44))

\* the complete samples of the data of the file, decoded
DataSamples == [k \in 1..(Len(DataBytes) \div 2) |-> GetInt16(Slice(DataBytes, 2 * (k - 1), 2))]

\* main has left the capture loop and updateWavHeader (main.go) or
\* wav.Encode (part_000) has returned nil
Finalized == pc \in {"return", "done"}

\* C1: at every frame boundary of a session of main.go that has not failed,
\* totalBytesWritten is the number of sample bytes in the file after the
\* 44-byte header, and once updateWavHeader has run the header's
\* Subchunk2Size is that number and its ChunkSize is 36 more.
C1_ByteCounter ==
    (variant = "stream" /\ failure = "none" /\ Len(fileBytes) >= 44)
    => /\ totalBytesWritten = Len(DataBytes)
       /\ Finalized => /\ Header.Subchunk2Size = ToU32(Len(DataBytes))
                       /\ Header.ChunkSize = ToU32(36 + Len(DataBytes))

\* C2: in main.go updateWavHeader is called at most once, only from the
\* loop's exit on the stop signal, on a file that is not closed; once it has
\* been called no sample byte is appended; and the file is closed only after
\* exactly one call.
C2_FinalizeOnce ==
    [][ (variant = "stream") =>
        /\ finalizeCalls' <= 1
        /\ (finalizeCalls' # finalizeCalls) => (pc = "finalize" /\ ~fileClosed)
        /\ (pc # "finalize" /\ pc' = "finalize") => (pc = "select" /\ stop)
        /\ (pc = "select" /\ stop /\ pc' # pc) => pc' = "finalize"
        /\ (pc = "finalize" /\ pc' # pc) => finalizeCalls' = finalizeCalls + 1
        /\ (finalizeCalls >= 1) => (DataBytes' = DataBytes)
        /\ fileClosed' => finalizeCalls' = 1 ]_vars

\* a session that captured, was stopped, finalized once and closed the file
C2_Witness == variant = "stream" /\ pc = "done" /\ fileClosed /\ finalizeCalls = 1 /\ Len(DataBytes) > 0

RECURSIVE SumSeq(_, _, _)
\* s[a] + ... + s[b]
SumSeq(s, a, b) == IF a > b THEN 0 ELSE s[a] + SumSeq(s, a + 1, b)

\* the value of sample s times the gain, truncated toward zero, unbounded
Gained(s) == LET g == s * volume
             IN  IF g >= 0 THEN g \div VolumeDen ELSE -((-g) \div VolumeDen)

\* C3: every sample main.go has written for a mono or stereo input is the
\* input sample times the gain, saturated to the int16 range (the nearest
\* of -32768 and 32767 when the product lies outside it), never a wrapped
\* value; every sample part_000 has kept is the input sample over 32767
\* times the gain, saturated to [-1.0, 1.0].
C3_GainSaturates ==
    /\ (variant = "stream" /\ channels <= 2)
       => \A k \in 1..Len(DataSamples) :
            LET g == Gained(captured[k])
            IN  DataSamples[k] = (IF g > MaxInt16 THEN MaxInt16
                                  ELSE IF g < MinInt16 THEN MinInt16 ELSE g)
    /\ (variant = "buffer")
       => \A k \in 1..Len(samples) :
            LET x == captured[k] * volume
            IN  /\ samples[k] >= -(MaxInt16 * VolumeDen)
                /\ samples[k] <= MaxInt16 * VolumeDen
                /\ samples[k] = (IF x > MaxInt16 * VolumeDen THEN MaxInt16 * VolumeDen
                                 ELSE IF x < -(MaxInt16 * VolumeDen)
                                      THEN -(MaxInt16 * VolumeDen) ELSE x)

\* C6: when stream.Read fails after the header has been written,
\* updateWavHeader has still been called and the header's Subchunk2Size is
\* the number of sample bytes in the file.
C6_ReadFailureFinalizes ==
    (variant = "stream" /\ failure = "read")
    => /\ finalizeCalls >= 1
       /\ Header.Subchunk2Size = ToU32(Len(DataBytes))

\* C8: a session of main.go stopped before any block was read ends with the
\* file exactly as writeWavHeader left it: 44 bytes, ChunkSize 36,
\* Subchunk2Size 0.
C8_EmptySessionKeepsPlaceholder ==
    (variant = "stream" /\ Finalized /\ blocksRead = 0)
    => /\ fileBytes = placeholder
       /\ Len(fileBytes) = 44
       /\ Header.ChunkSize = <<0, 36>>
       /\ Header.Subchunk2Size = <<0, 0>>

\* a session stopped before its first read, after updateWavHeader
C8_Witness == variant = "stream" /\ pc = "done" /\ blocksRead = 0 /\ finalizeCalls = 1

\* the sum of the input samples of frame f (1-based) of what was captured
FrameSum(f) == SumSeq(captured, (f - 1) * channels + 1, f * channels)

\* with more than 2 channels, each value of a frame the streamer of part_000
\* has delivered is the sum of the frame's samples over the channel count
StreamedMean ==
    (variant = "buffer" /\ channels > 2)
    => \A f \in 1..Len(streamed) :
         \A k \in 1..2 :
            /\ streamed[f][k].den > 0
            /\ streamed[f][k].num * channels
                 = SumSeq(samples, (f - 1) * channels + 1, f * channels) * streamed[f][k].den

\* C9 as stated: with more than 2 channels (and, in main.go, gain 1.0), each
\* output sample of a frame is the arithmetic mean of the frame's input samples.
C9_ExactMean ==
    /\ (variant = "stream" /\ channels > 2 /\ volume = VolumeDen)
       => \A f \in 1..(Len(DataSamples) \div 2) :
            \A o \in {DataSamples[2 * f - 1], DataSamples[2 * f]} :
               o * channels = FrameSum(f)
    /\ StreamedMean

\* C9, amended: with more than 2 channels, each of the two output samples
\* main.go writes for a frame is the sum of the frame's input samples divided
\* by the channel count with the quotient truncated toward zero, then passed
\* through the gain (at gain 1.0 the truncated mean itself, within one unit
\* of the mean); each value the streamer of part_000 delivers for a frame is
\* the sum of the frame's samples over the channel count.
C9_TruncatedMean ==
    /\ (variant = "stream" /\ channels > 2)
       => \A f \in 1..(Len(DataSamples) \div 2) :
            LET sum == FrameSum(f)
                q   == IF sum >= 0 THEN sum \div channels ELSE -((-sum) \div channels)
                g   == Gained(q)
            IN  /\ q * channels <= sum + channels - 1
                /\ q * channels >= sum - channels + 1
                /\ (g >= MinInt16 /\ g <= MaxInt16)
                   => (DataSamples[2 * f - 1] = g /\ DataSamples[2 * f] = g)
    /\ StreamedMean

\* a finalized capture of more than 2 channels at gain 1.0 with a frame whose
\* sum is negative and no multiple of the channel count
C9_Witness ==
    /\ variant = "stream" /\ channels > 2 /\ volume = VolumeDen /\ Finalized
    /\ \E f \in 1..(Len(DataSamples) \div 2) :
         FrameSum(f) < 0 /\ FrameSum(f) % channels # 0

\* C10: when no candidate rate is supported the process ends with no stream
\* opened, no block read and no file created or written.
C10_NoRateNoCapture ==
    (failure = "negotiate")
    => /\ pc = "fatal"
       /\ ~streamOpen
       /\ blocksRead = 0
       /\ captured = <<>>
       /\ ~fileExists
       /\ fileBytes = <<>>

\* negotiation has failed
C10_Witness == failure = "negotiate" /\ supported = {} /\ pc = "fatal"

\* the indexes of the candidates the device supports
SupportedAt == {k \in 1..Len(candidates) : candidates[k] \in supported}

\* C4: findWorkingSampleRate returns the earliest candidate of the list that
\* the device supports, and fails exactly when the device supports none.
C4_FirstSupported ==
    (pc # "negotiate")
    => IF SupportedAt = {}
       THEN failure = "negotiate"
       ELSE /\ failure = "none"
            /\ \E k \in SupportedAt :
                 /\ \A j \in SupportedAt : k <= j
                 /\ sampleRate = candidates[k]

\* candidates [44100, 48000, 16000] on a device supporting 48000 and 16000
C4_Witness ==
    /\ candidates = <<44100, 48000, 16000>>
    /\ supported = {48000, 16000}
    /\ pc = "openStream"
    /\ sampleRate = 48000

\* C5: the header writeWavHeader writes decodes to the four arguments, with
\* ChunkSize = 36 + dataSize, Subchunk2Size = dataSize,
\* BlockAlign = channelCount * bitsPerSample / 8 and
\* ByteRate = sampleRate * channelCount * bitsPerSample / 8, none of them
\* reduced modulo 2^16 or 2^32.
C5_HeaderRoundTrip ==
    (pc = "returned")
    => /\ Header.SampleRate = hargs.rate
       /\ Header.NumChannels = hargs.numChannels
       /\ Header.BitsPerSample = hargs.bits
       /\ Header.Subchunk2Size = hargs.dataSize
       /\ Header.ChunkSize = ExactAdd36(hargs.dataSize)
       /\ Header.BlockAlign = (hargs.numChannels * hargs.bits) \div 8
       /\ Header.ByteRate = ExactMul(hargs.rate, (hargs.numChannels * hargs.bits) \div 8)

\* C7: once the channel holds a stop signal, main leaves the loop and
\* updateWavHeader (main.go) or wav.Encode (part_000) returns, unless a
\* device or file operation returns an error; at most one read returns while the signal waits, and no block is
\* read once the loop has been left.
C7_StopFinalizes ==
    /\ (stop /\ pc \in {"start", "select", "read", "frame", "accumulate"})
          ~> (Finalized \/ failure # "none")
    /\ [](readsAfterStop <= 1)
    /\ [][(pc \in {"finalize", "encode", "encoded", "return", "done"})
            => (blocksRead' = blocksRead)]_vars

\* a session finalized after the signal arrived during a read
C7_Witness == Finalized /\ readsAfterStop = 1 /\ failure = "none"

\* main has left the capture loop through the stop case of the select
LoopLeft == pc \in {"finalize", "encode", "encoded", "return", "done"}

\* the frames of the file, counted as main.go writes them
FramesInFile == Len(DataSamples) \div frameValues(channels)

\* C11: the stop signal is received only at the top of the capture loop, with
\* no block partly handled; once the loop has been left on the signal every
\* frame of every block read has been appended (main.go: to the file, sample
\* for sample with one or two channels; part_000: to samples), so the number
\* of frames is a whole multiple of framesPerBuf, whenever the signal arrived.
C11_StopAtBlockBoundary ==
    /\ [][ (stop /\ ~stop')
            => /\ pc = "select"
               /\ LoopLeft'
               /\ Len(captured) = blocksRead * framesPerBuf * channels
               /\ (variant = "stream") => FramesInFile = blocksRead * framesPerBuf
               /\ (variant = "buffer") => Len(samples) = Len(captured) ]_vars
    /\ [](LoopLeft =>
            /\ (variant = "stream") =>
                  /\ Len(DataBytes) = 2 * frameValues(channels) * FramesInFile
                  /\ FramesInFile = blocksRead * framesPerBuf
                  /\ FramesInFile % framesPerBuf = 0
                  /\ (channels <= 2) => Len(DataSamples) = Len(captured)
            /\ (variant = "buffer") =>
                  /\ Len(samples) = blocksRead * framesPerBuf * channels
                  /\ (Len(samples) \div channels) % framesPerBuf = 0
                  /\ (pc # "encode") => Len(streamed) = blocksRead * framesPerBuf)

\* the loop left on a signal that arrived between the frames of a block,
\* after at least two blocks
C11_Witness ==
    /\ variant = "stream" /\ pc = "return" /\ signalMidBlock
    /\ blocksRead >= 2 /\ failure = "none"

\* C12: at every block boundary of a session of main.go that has not failed,
\* the file holds, for each captured frame, as many sample values as the
\* NumChannels field of its header says (the configured channel count), so
\* the length of the sample data is a multiple of the header's BlockAlign.
C12_FrameMatchesHeader ==
    (/\ variant = "stream" /\ failure = "none"
     /\ pc \in {"select", "read", "finalize", "return", "done"})
    => /\ Header.NumChannels = channels
       /\ Len(DataSamples) = (Len(captured) \div channels) * Header.NumChannels
       /\ Header.BlockAlign > 0
       /\ Len(DataBytes) % Header.BlockAlign = 0

\* the frame a streamer of ch channels makes of the f-th input frame of ss:
\* each of its two values as a fraction num / den
InputFrame(ss, ch, f) ==
    LET b == (f - 1) * ch
    IN  IF ch = 1 THEN << [num |-> ss[b + 1], den |-> 1], [num |-> ss[b + 1], den |-> 1] >>
        ELSE IF ch = 2 THEN << [num |-> ss[b + 1], den |-> 1], [num |-> ss[b + 2], den |-> 1] >>
        ELSE << [num |-> SumSeq(ss, b + 1, b + ch), den |-> ch],
                [num |-> SumSeq(ss, b + 1, b + ch), den |-> ch] >>

\* C13: over successive calls of the streamer multiChannelStreamer(samples, ch)
\* returns, the frames delivered are the complete input frames in input
\* order, their number is the sum of the n returned and never exceeds
\* floor(len(samples) / ch), the position never passes the end of samples,
\* a call that returns less than asked or not ok has delivered all
\* floor(len(samples) / ch) frames, and every call made when no complete
\* frame is left returns (0, false).
C13_StreamerFrames ==
    LET whole == Len(samples) \div channels
    IN  /\ Len(streamed) = ret.total
        /\ ret.total <= whole
        /\ streamPos = channels * ret.total
        /\ streamPos <= Len(samples)
        /\ \A f \in 1..Len(streamed) : streamed[f] = InputFrame(samples, channels, f)
        /\ (~ret.ok) => ret.total = whole
        /\ ret.spent => (ret.n = 0 /\ ~ret.ok /\ ret.total = whole)
        /\ (ret.after > 0) => ret.total = whole

\* a sequence with a partial trailing frame, all of its complete frames
\* delivered, and the streamer called after that as often as the bound allows
C13_Witness ==
    /\ pc = "stream" /\ channels = 2 /\ Len(samples) = 5
    /\ ret.total = 2 /\ ret.after = MaxAfter /\ ret.n = 0 /\ ~ret.ok

\* the writes of the header of the session, as writeWavHeader makes them
SessionHeaderWrites ==
    writeWavHeaderWrites(ToU32(sampleRate), channels, bitsPerSample, ToU32(0))

\* the byte positions (1-based) of ChunkSize and Subchunk2Size in the file
SizeFieldBytes == (5..8) \cup (41..44)

\* C14: a call of updateWavHeader leaves the length of the file and every
\* byte outside offsets 4..7 and 40..43 as they were (the rest of the header
\* and every sample byte); those offsets are where writeWavHeader wrote
\* ChunkSize and Subchunk2Size; and after a call that returned nil the two
\* fields hold 36 + dataSize and dataSize.
C14_FinalizePatchesSizeFields ==
    [][ (finalizeCalls' # finalizeCalls)
        => /\ Len(fileBytes') = Len(fileBytes)
           /\ \A k \in 1..Len(fileBytes) :
                 (k \notin SizeFieldBytes) => fileBytes'[k] = fileBytes[k]
           /\ Len(Concat(SessionHeaderWrites, 1)) = 4
           /\ Len(SessionHeaderWrites[2]) = 4
           /\ Len(Concat(SessionHeaderWrites, 12)) = 40
           /\ Len(SessionHeaderWrites[13]) = 4
           /\ (failure' = "none")
              => /\ Header'.ChunkSize = ToU32(36 + totalBytesWritten')
                 /\ Header'.Subchunk2Size = ToU32(totalBytesWritten')
                 /\ DataBytes' = DataBytes ]_vars

\* updateWavHeader has returned nil on a file that holds samples, and has
\* changed the header
C14_Witness ==
    /\ variant = "stream" /\ pc = "return" /\ finalizeCalls = 1
    /\ Len(DataBytes) > 0
    /\ Slice(fileBytes, 0, 44) # placeholder

\* the samples held in memory that have not gone to the destination: in
\* main.go the part of the block not yet written; in part_000 the block just
\* read and every sample of samples the encoder has not been given
Unwritten ==
    IF variant = "stream"
    THEN (IF pc = "frame" THEN Len(buffer) - idx ELSE 0)
    ELSE (IF pc = "accumulate" THEN Len(buffer) ELSE 0) + (Len(samples) - streamPos)

\* C15: every block's samples have gone to the destination before the next
\* block is read, and the samples held in memory and not yet written never
\* exceed one block, however many blocks are captured.
C15_OneBlockInMemory ==
    /\ Unwritten <= framesPerBuf * channels
    /\ (pc = "read") => Unwritten = 0

=============================================================================
